---- MODULE Spec2Model ----
(***************************************************************************)
(* The launcher of linuxfox2509/mc-launcher (src/src/main.rs and           *)
(* src/src/utils.rs) as a state machine: one launcher process at a time    *)
(* runs main() against a local file system that survives from one run to   *)
(* the next.  Strings are sequences of tokens, so that replace, format!,   *)
(* join, split and the path queries are computed and not assumed.          *)
(* Every GET may fail; errors of the local file system are not modelled.   *)
(* The process may be terminated from the outside while the asset batch    *)
(* runs, which is the one place where threads run beside main.             *)
(***************************************************************************)
EXTENDS Integers, Sequences, FiniteSets, TLC

VARIABLES
    fs,          \* the local file system: path -> content, files that exist
    remoteIndex, \* the asset index documents the server holds: url -> (name -> hash)
    archive,     \* the entry names of the native bundles the server holds
    run,         \* number of launcher processes started so far
    pc,          \* position of the main thread
    outcome,     \* "running", "returned" (main returned early), "launched", "killed"
    versions,    \* main's `versions` (after the filter)
    version,     \* index into `versions` of the selected version, 0 before
    lib_paths,   \* main's `lib_paths`
    units,       \* the threads spawned by download_assets
    joined,      \* number of handles already joined
    reqs,        \* url -> number of GET requests issued in this run
    failed,      \* urls whose request failed in this run
    message,     \* what main printed with eprintln!/println! before it returned early
    exitCode,    \* exit status of the process, -1 while it runs
    classpath,   \* the -cp argument given to java, <<>> before the launch
    opened,      \* the archives extract_natives opened in this run
    written,     \* the files extract_natives created in this run
    preExisting, \* the object files on disk when the batch was spawned
    firstDone,   \* the unit that terminated first in this batch, 0 if none yet
    prev,        \* summary of the previous run
    everKilled   \* some run so far was terminated from the outside

vars == <<fs, remoteIndex, archive, run, pc, outcome, versions, version, lib_paths,
          units, joined, reqs, failed, message, exitCode, classpath, opened, written,
          preExisting, firstDone, prev, everKilled>>

\* ---------------------------------------------------------------- bounds
MaxRuns == 2
NumAssets == 2
MaxEntries == 2

\* ---------------------------------------------------------------- strings
None == <<>>

\* str::replace on one-token patterns
Replace(s, from, to) == [i \in 1..Len(s) |-> IF s[i] = from THEN to ELSE s[i]]

\* [String]::join
RECURSIVE Join(_, _)
Join(ss, sep) ==
    IF ss = <<>> THEN <<>>
    ELSE IF Len(ss) = 1 THEN ss[1]
    ELSE ss[1] \o <<sep>> \o Join(Tail(ss), sep)

\* str::split: the pieces between the separators, empty pieces included
RECURSIVE SplitOn(_, _)
SplitOn(s, sep) ==
    IF \A i \in 1..Len(s) : s[i] # sep THEN <<s>>
    ELSE LET i == CHOOSE k \in 1..Len(s) :
                      s[k] = sep /\ \A j \in 1..(k - 1) : s[j] # sep
         IN  <<SubSeq(s, 1, i - 1)>> \o SplitOn(SubSeq(s, i + 1, Len(s)), sep)

Last(s) == s[Len(s)]

\* ---------------------------------------------------------------- file system
Exists(f, p) == p \in DOMAIN f
Write(f, p, c) == [q \in (DOMAIN f) \cup {p} |-> IF q = p THEN c ELSE f[q]]
EmptyFile == [kind |-> "empty", of |-> <<>>]
\* the response body of a GET of url
Body(url) == [kind |-> "body", of |-> url]
\* a JSON document parsed from the body of url and written back pretty-printed
Json(url) == [kind |-> "json", of |-> url]

Bump(r, url) == [u \in (DOMAIN r) \cup {url} |->
                    IF u = url THEN (IF u \in DOMAIN r THEN r[u] ELSE 0) + 1 ELSE r[u]]
Count(r, url) == IF url \in DOMAIN r THEN r[url] ELSE 0

\* ---------------------------------------------------------------- the server
ManifestUrl == <<"https://launchermeta.mojang.com/mc/game/version_manifest.json">>

Release == <<"1", ".", "20", ".", "1">>
Snapshot == <<"23w31a">>

VersionUrl(id) == <<"https://meta/">> \o id \o <<".json">>
ClientUrl(id) == <<"https://client/">> \o id \o <<".jar">>
IndexUrl(id) == <<"https://index/">> \o id \o <<".json">>

\* the manifest document {versions: [{id, url}, ...]}
ManifestDoc == << [id |-> Release, url |-> VersionUrl(Release)],
                  [id |-> Snapshot, url |-> VersionUrl(Snapshot)] >>

\* Option<T>: None is the empty sequence, Some(x) is <<x>>
Some(x) == <<x>>

Lib(name, artifact, classifiers) ==
    [name |-> name, downloads |-> [artifact |-> artifact, classifiers |-> classifiers]]

LibA == <<"g", ":", "a", ":", "1">>
LibB == <<"g", ":", "b", ":", "1">>
LibC == <<"g", ":", "c", ":", "1">>
LibD == <<"g", ":", "d", ":", "1">>

Download(kind, name) == [url |-> <<"https://libraries/", kind, "/">> \o name]
Artifact(name) == Some(Download("artifact", name))
Windows(name) == Some([c \in {"natives-windows"} |-> Download("natives-windows", name)])
Linux(name) == Some([c \in {"natives-linux"} |-> Download("natives-linux", name)])

\* The release: a plain artifact, an artifact with a native bundle, a native
\* bundle alone, a metadata-only entry, a bundle for another platform.
ReleaseLibraries ==
    << Lib(LibA, Artifact(LibA), None),
       Lib(LibB, Artifact(LibB), Windows(LibB)),
       Lib(LibC, None, Windows(LibC)),
       Lib(LibD, None, None),
       Lib(LibA, None, Linux(LibA)) >>

SnapshotLibraries == << Lib(LibC, None, Windows(LibC)) >>

IndexId(id) == IF id = Release THEN <<"5">> ELSE <<"6">>

\* the version detail document behind a version url
Detail(url) ==
    LET id == IF url = VersionUrl(Release) THEN Release ELSE Snapshot
    IN  [ downloads  |-> [client |-> [url |-> ClientUrl(id)]],
          mainClass  |-> "net.minecraft.client.main.Main",
          libraries  |-> IF id = Release THEN ReleaseLibraries ELSE SnapshotLibraries,
          assetIndex |-> [id |-> IndexId(id), url |-> IndexUrl(IndexId(id))] ]

AssetNameList == <<"a", "b", "c", "d">>
AssetNames == {AssetNameList[i] : i \in 1..NumAssets}
Hashes == { <<"a", "b", "1">>, <<"c", "d", "2">> }
IndexDocs == [AssetNames -> Hashes]


\* ---------------------------------------------------------------- utils.rs: paths
JarPath(id) == <<"minecraft/">> \o id \o <<".jar">>
VersionJsonPath(id) == <<"minecraft/">> \o id \o <<".json">>
\* download_libraries: name.replace(":", "-"), format!("minecraft/libs/{}.jar", name)
ArtifactPath(lib) == <<"minecraft/libs/">> \o Replace(lib.name, ":", "-") \o <<".jar">>
\* extract_natives: name.replace(":", "-"), format!("minecraft/libs/{}.jar", name)
NativePath(lib) == <<"minecraft/libs/">> \o Replace(lib.name, ":", "-") \o <<".jar">>
IndexPath(id) == <<"minecraft/assets/indexes/">> \o id \o <<".json">>
Subdir(hash) == SubSeq(hash, 1, 2)
ObjectUrl(hash) ==
    <<"https://resources.download.minecraft.net/">> \o Subdir(hash) \o <<"/">> \o hash
ObjectPath(hash) == <<"minecraft/assets/objects/">> \o Subdir(hash) \o <<"/">> \o hash
VirtualDir == <<"minecraft/assets/virtual/legacy">>
VirtualPath(name) == VirtualDir \o <<"/", name>>

\* lib.downloads.classifiers.as_ref().and_then(|c| c.get("natives-windows"))
NativeOf(lib) ==
    LET c == lib.downloads.classifiers
    IN  IF c = None THEN None
        ELSE IF "natives-windows" \in DOMAIN c[1] THEN Some(c[1]["natives-windows"])
        ELSE None

\* ---------------------------------------------------------------- download_libraries
\* One iteration of the loop over the libraries; st.err is the `?` having returned.
LibraryStep(st, lib, fails) ==
    IF st.err \/ lib.downloads.artifact = None THEN st
    ELSE LET url  == lib.downloads.artifact[1].url
             path == ArtifactPath(lib)
         IN  IF Exists(st.fs, path) THEN [st EXCEPT !.paths = Append(@, path)]
             ELSE IF fails
             THEN [st EXCEPT !.reqs = Bump(@, url), !.failed = @ \cup {url}, !.err = TRUE]
             ELSE [st EXCEPT !.reqs = Bump(@, url),
                             !.fs = Write(@, path, Body(url)),
                             !.paths = Append(@, path)]

RECURSIVE LibraryLoop(_, _, _, _)
LibraryLoop(libraries, i, st, failAt) ==
    IF i > Len(libraries) THEN st
    ELSE LibraryLoop(libraries, i + 1, LibraryStep(st, libraries[i], i = failAt), failAt)

\* ---------------------------------------------------------------- extract_natives
\* The entries of a zip file with this content: a native bundle holds `archive`,
\* every other jar holds classes.
JarEntries == << <<"A", ".", "class">> >>
EntriesOf(content, bundle) ==
    IF content.kind = "body" /\ Len(content.of) >= 2 /\ content.of[2] = "natives-windows"
    THEN bundle ELSE JarEntries

\* Path::components: the pieces between the slashes, without the empty ones and
\* the "." ones; a leading slash is the root
HasRoot(name) == name # <<>> /\ name[1] = "/"
Components(name) ==
    SelectSeq(SplitOn(name, "/"), LAMBDA c : c # <<>> /\ c # <<".">>)

\* ZipFile::enclosed_name: no root, and no ".." that climbs above the start
RECURSIVE Depth(_, _)
Depth(cs, d) ==
    IF cs = <<>> THEN d
    ELSE IF d < 0 THEN d
    ELSE IF Head(cs) = <<"..">> THEN Depth(Tail(cs), d - 1)
    ELSE Depth(Tail(cs), d + 1)
EnclosedName(name) ==
    IF HasRoot(name) \/ Depth(Components(name), 0) < 0 THEN None ELSE Some(name)

\* Path::file_name: the last component, unless the path ends in ".."
FileName(name) ==
    LET cs == Components(name)
    IN  IF cs = <<>> \/ Last(cs) = <<"..">> THEN None ELSE Some(Last(cs))

\* Path::extension: what follows the last "." of the file name, when that "."
\* is not its first character
Extension(name) ==
    LET f == FileName(name)
    IN  IF f = None THEN None
        ELSE LET dots == {i \in 2..Len(f[1]) : f[1][i] = "."}
             IN  IF dots = {} THEN None
                 ELSE LET k == CHOOSE i \in dots : \A j \in dots : j <= i
                      IN  Some(SubSeq(f[1], k + 1, Len(f[1])))

\* a filter that lets every entry with an extension through
IsDllAnyExtension(outpath) == Extension(outpath) # None

\* outpath.extension().map_or(false, |e| e == "dll")
IsDll(outpath) == Extension(outpath) = Some(<<"dll">>)

NativeOut(outpath) == <<"minecraft/natives/">> \o FileName(outpath)[1]

\* One iteration of the loop over the entries of an archive
EntryStep(st, name) ==
    LET outpath == EnclosedName(name)
    IN  IF outpath = None THEN st
        ELSE IF IsDll(outpath[1])
        THEN [st EXCEPT !.fs = Write(@, NativeOut(outpath[1]), [kind |-> "entry", of |-> name]),
                        !.written = @ \cup {NativeOut(outpath[1])}]
        ELSE st

RECURSIVE EntryLoop(_, _, _)
EntryLoop(entries, i, st) ==
    IF i > Len(entries) THEN st ELSE EntryLoop(entries, i + 1, EntryStep(st, entries[i]))

\* One iteration of the loop over the libraries
NativeStep(st, lib, fails, bundle) ==
    IF st.err \/ NativeOf(lib) = None THEN st
    ELSE LET url  == NativeOf(lib)[1].url
             path == NativePath(lib)
             got  == IF Exists(st.fs, path) THEN st
                     ELSE IF fails
                     THEN [st EXCEPT !.reqs = Bump(@, url), !.failed = @ \cup {url},
                                     !.err = TRUE]
                     ELSE [st EXCEPT !.reqs = Bump(@, url),
                                     !.fs = Write(@, path, Body(url))]
         IN  IF got.err THEN got
             ELSE EntryLoop(EntriesOf(got.fs[path], bundle), 1,
                            [got EXCEPT !.opened = Append(@, [lib |-> lib,
                                                              content |-> got.fs[path]])])

RECURSIVE NativeLoop(_, _, _, _, _)
NativeLoop(libraries, i, st, failAt, bundle) ==
    IF i > Len(libraries) THEN st
    ELSE NativeLoop(libraries, i + 1,
                    NativeStep(st, libraries[i], i = failAt, bundle), failAt, bundle)

\* ---------------------------------------------------------------- download_assets
\* objects.iter(): serde_json's map, in the order of the names
NameOrder == SubSeq(AssetNameList, 1, NumAssets)

\* the (url, path, subdir) of one object of the index, as a thread about to start
Unit(hash) == [url |-> ObjectUrl(hash), path |-> ObjectPath(hash),
               subdir |-> Subdir(hash), pc |-> "check", result |-> "none"]
Assets(objects) == [i \in 1..Len(NameOrder) |-> Unit(objects[NameOrder[i]])]

\* a join that returns at once
UnitFinishedNoWait(i) == i \in DOMAIN units

\* handle.join(): returns once the thread has terminated
UnitFinished(i) == units[i].pc = "done"

\* One iteration of the loop that builds the virtual/legacy mirror
MirrorStep(f, name, hash) ==
    LET object_path  == ObjectPath(hash)
        virtual_path == VirtualPath(name)
    IN  IF Exists(f, object_path) /\ ~Exists(f, virtual_path)
        THEN Write(f, virtual_path, f[object_path])
        ELSE f

RECURSIVE MirrorLoop(_, _, _)
MirrorLoop(objects, i, f) ==
    IF i > Len(NameOrder) THEN f
    ELSE MirrorLoop(objects, i + 1, MirrorStep(f, NameOrder[i], objects[NameOrder[i]]))


\* ---------------------------------------------------------------- main.rs
\* id.starts_with("1.") && !id.contains("snapshot")
StartsWith(id, prefix) == Len(id) >= Len(prefix) /\ SubSeq(id, 1, Len(prefix)) = prefix
Contains(id, token) == \E i \in 1..Len(id) : id[i] = token
IsMajor(v) == StartsWith(v.id, <<"1", ".">>) /\ ~Contains(v.id, "snapshot")

selected_version == versions[version].id
version_url == versions[version].url
\* the version JSON read back from minecraft/<id>.json
version_detail == Detail(fs[VersionJsonPath(selected_version)].of)
jar_path == JarPath(selected_version)

\* lib_paths.join(";"), push(';'), push_str(&jar_path)
BuildClasspath(paths, jar) == (Join(paths, ";") \o <<";">>) \o jar

remote == <<remoteIndex, archive>>
history == <<run, prev, everKilled>>
batch == <<units, joined, preExisting, firstDone>>
natives == <<opened, written>>

\* main returns early after printing msg
Return(msg) ==
    /\ pc' = "exited"
    /\ outcome' = "returned"
    /\ message' = msg
    /\ exitCode' = 0

FetchVersions ==
    /\ pc = "fetch_versions"
    /\ reqs' = Bump(reqs, ManifestUrl)
    /\ \E ok \in BOOLEAN, all \in BOOLEAN :
         IF ok
         THEN /\ versions' = IF all THEN ManifestDoc ELSE SelectSeq(ManifestDoc, IsMajor)
              /\ pc' = "select"
              /\ UNCHANGED <<failed, outcome, message, exitCode>>
         ELSE /\ failed' = failed \cup {ManifestUrl}
              /\ Return("Failed to fetch versions")
              /\ UNCHANGED versions
    /\ UNCHANGED <<fs, remote, history, version, lib_paths, batch, classpath, natives>>

SelectVersion ==
    /\ pc = "select"
    /\ \E choice \in 0..(Len(versions) + 1) :
         IF choice = 0 \/ choice > Len(versions)
         THEN Return("Invalid choice.") /\ UNCHANGED version
         ELSE /\ version' = choice
              /\ pc' = "detect_java"
              /\ UNCHANGED <<outcome, message, exitCode>>
    /\ UNCHANGED <<fs, remote, history, versions, lib_paths, batch, reqs, failed,
                   classpath, natives>>

DetectJava ==
    /\ pc = "detect_java"
    /\ \E found \in BOOLEAN :
         IF found
         THEN pc' = "download_version_files" /\ UNCHANGED <<outcome, message, exitCode>>
         ELSE Return("No Java installations found. Please install Java.")
    /\ UNCHANGED <<fs, remote, history, versions, version, lib_paths, batch, reqs, failed,
                   classpath, natives>>

DownloadVersionFiles ==
    /\ pc = "download_version_files"
    /\ LET client_url == Detail(version_url).downloads.client.url
       IN  \E fail \in {"none", "detail", "client"} :
             CASE fail = "detail" ->
                    /\ reqs' = Bump(reqs, version_url)
                    /\ failed' = failed \cup {version_url}
                    /\ Return("Failed to download files")
                    /\ UNCHANGED fs
               [] fail = "client" ->
                    /\ reqs' = Bump(Bump(reqs, version_url), client_url)
                    /\ failed' = failed \cup {client_url}
                    /\ Return("Failed to download files")
                    /\ UNCHANGED fs
               [] fail = "none" ->
                    /\ reqs' = Bump(Bump(reqs, version_url), client_url)
                    /\ fs' = Write(Write(fs, JarPath(selected_version), Body(client_url)),
                                   VersionJsonPath(selected_version), Json(version_url))
                    /\ pc' = "download_libraries"
                    /\ UNCHANGED <<failed, outcome, message, exitCode>>
    /\ UNCHANGED <<remote, history, versions, version, lib_paths, batch, classpath, natives>>

DownloadLibraries ==
    /\ pc = "download_libraries"
    /\ \E failAt \in 0..Len(version_detail.libraries) :
         LET st == LibraryLoop(version_detail.libraries, 1,
                               [fs |-> fs, paths |-> <<>>, reqs |-> reqs,
                                failed |-> failed, err |-> FALSE], failAt)
         IN  /\ fs' = st.fs
             /\ reqs' = st.reqs
             /\ failed' = st.failed
             /\ IF st.err
                THEN Return("Failed to download libraries") /\ UNCHANGED lib_paths
                ELSE /\ lib_paths' = st.paths
                     /\ pc' = "extract_natives"
                     /\ UNCHANGED <<outcome, message, exitCode>>
    /\ UNCHANGED <<remote, history, versions, version, batch, classpath, natives>>

ExtractNatives ==
    /\ pc = "extract_natives"
    /\ \E failAt \in 0..Len(version_detail.libraries) :
         LET st == NativeLoop(version_detail.libraries, 1,
                              [fs |-> fs, reqs |-> reqs, failed |-> failed, err |-> FALSE,
                               opened |-> <<>>, written |-> {}], failAt, archive)
         IN  /\ fs' = st.fs
             /\ reqs' = st.reqs
             /\ failed' = st.failed
             /\ opened' = st.opened
             /\ written' = st.written
             /\ IF st.err
                THEN Return("Failed to extract natives")
                ELSE pc' = "download_assets" /\ UNCHANGED <<outcome, message, exitCode>>
    /\ UNCHANGED <<remote, history, versions, version, lib_paths, batch, classpath>>

\* download_assets up to the spawning of the threads
DownloadAssetsSpawn ==
    /\ pc = "download_assets"
    /\ LET asset_index == version_detail.assetIndex
       IN  /\ reqs' = Bump(reqs, asset_index.url)
           /\ \E ok \in BOOLEAN :
                IF ok
                THEN /\ fs' = Write(fs, IndexPath(asset_index.id), Json(asset_index.url))
                     /\ units' = Assets(remoteIndex[asset_index.url])
                     /\ joined' = 0
                     /\ firstDone' = 0
                     /\ preExisting' =
                          {h \in Hashes : Exists(fs, ObjectPath(h))}
                     /\ pc' = "batch"
                     /\ UNCHANGED <<failed, outcome, message, exitCode>>
                ELSE /\ failed' = failed \cup {asset_index.url}
                     /\ Return("Failed to download assets")
                     /\ UNCHANGED <<fs, batch>>
    /\ UNCHANGED <<remote, history, versions, version, lib_paths, classpath, natives>>

\* a thread of the batch is scheduled while the process is alive
Alive(i) == outcome = "running" /\ i \in DOMAIN units

Finish(i, result) ==
    /\ units' = [units EXCEPT ![i].pc = "done", ![i].result = result]
    /\ firstDone' = IF firstDone = 0 THEN i ELSE firstDone

\* if !Path::new(&path).exists() { create_dir_all(..)
UnitCheck(i) ==
    /\ Alive(i) /\ units[i].pc = "check"
    /\ IF Exists(fs, units[i].path)
       THEN Finish(i, "skipped")
       ELSE units' = [units EXCEPT ![i].pc = "get"] /\ UNCHANGED firstDone
    /\ UNCHANGED <<fs, remote, history, pc, outcome, versions, version, lib_paths, joined,
                   preExisting, reqs, failed, message, exitCode, classpath, natives>>

\* reqwest::blocking::get(&url).and_then(|r| r.bytes())
UnitGet(i) ==
    /\ Alive(i) /\ units[i].pc = "get"
    /\ reqs' = Bump(reqs, units[i].url)
    /\ \E ok \in BOOLEAN :
         IF ok
         THEN units' = [units EXCEPT ![i].pc = "create"] /\ UNCHANGED <<failed, firstDone>>
         ELSE Finish(i, "failed") /\ failed' = failed \cup {units[i].url}
    /\ UNCHANGED <<fs, remote, history, pc, outcome, versions, version, lib_paths, joined,
                   preExisting, message, exitCode, classpath, natives>>

\* fs::File::create(&path)
UnitCreate(i) ==
    /\ Alive(i) /\ units[i].pc = "create"
    /\ fs' = Write(fs, units[i].path, EmptyFile)
    /\ units' = [units EXCEPT ![i].pc = "write"]
    /\ UNCHANGED <<remote, history, pc, outcome, versions, version, lib_paths, joined,
                   preExisting, firstDone, reqs, failed, message, exitCode, classpath,
                   natives>>

\* file.write_all(&bytes)
UnitWrite(i) ==
    /\ Alive(i) /\ units[i].pc = "write"
    /\ fs' = Write(fs, units[i].path, Body(units[i].url))
    /\ Finish(i, "written")
    /\ UNCHANGED <<remote, history, pc, outcome, versions, version, lib_paths, joined,
                   preExisting, reqs, failed, message, exitCode, classpath, natives>>

\* for handle in handles { let _ = handle.join(); }
Join1 ==
    /\ pc = "batch"
    /\ joined < Len(units)
    /\ UnitFinished(joined + 1)
    /\ joined' = joined + 1
    /\ UNCHANGED <<fs, remote, history, pc, outcome, versions, version, lib_paths, units,
                   preExisting, firstDone, reqs, failed, message, exitCode, classpath,
                   natives>>

\* download_assets after the joins: the virtual/legacy mirror, then Ok(())
MirrorAssets ==
    /\ pc = "batch"
    /\ joined = Len(units)
    /\ fs' = MirrorLoop(remoteIndex[version_detail.assetIndex.url], 1, fs)
    /\ pc' = "scan"
    /\ UNCHANGED <<remote, history, outcome, versions, version, lib_paths, batch, reqs,
                   failed, message, exitCode, classpath, natives>>

\* main after download_assets: the missing-entry scan, the classpath, the launch
ScanAndLaunch ==
    /\ pc = "scan"
    /\ classpath' = BuildClasspath(lib_paths, jar_path)
    /\ pc' = "exited"
    /\ outcome' = "launched"
    /\ exitCode' = 0
    /\ UNCHANGED <<fs, remote, history, versions, version, lib_paths, batch, reqs, failed,
                   message, natives>>

\* the process is terminated from the outside while the batch runs
Kill ==
    /\ pc = "batch"
    /\ pc' = "exited"
    /\ outcome' = "killed"
    /\ exitCode' = 137
    /\ everKilled' = TRUE
    /\ UNCHANGED <<fs, remote, run, prev, versions, version, lib_paths, batch, reqs, failed,
                   message, classpath, natives>>

\* the user starts the launcher again
StartRun ==
    /\ pc = "exited"
    /\ run < MaxRuns
    /\ run' = run + 1
    /\ prev' = [version |-> IF version = 0 THEN None ELSE selected_version,
                outcome |-> outcome, clean |-> failed = {}]
    /\ pc' = "fetch_versions"
    /\ outcome' = "running"
    /\ versions' = <<>>
    /\ version' = 0
    /\ lib_paths' = <<>>
    /\ units' = <<>>
    /\ joined' = 0
    /\ preExisting' = {}
    /\ firstDone' = 0
    /\ reqs' = <<>>
    /\ failed' = {}
    /\ message' = ""
    /\ exitCode' = -1
    /\ classpath' = <<>>
    /\ opened' = <<>>
    /\ written' = {}
    /\ UNCHANGED <<fs, remote, everKilled>>

\* a.dll, b.so and readme.txt, a nested dll and one that escapes
DemoArchive == << <<"a", ".", "dll">>, <<"b", ".", "so">>, <<"readme", ".", "txt">>,
                  <<"d", "/", "a", ".", "dll">>, <<"..", "/", "e", ".", "dll">> >>

IndexUrls == {IndexUrl(IndexId(Release)), IndexUrl(IndexId(Snapshot))}

Fresh ==
    /\ run = 1
    /\ prev = [version |-> None, outcome |-> "none", clean |-> TRUE]
    /\ everKilled = FALSE
    /\ pc = "fetch_versions"
    /\ outcome = "running"
    /\ versions = <<>>
    /\ version = 0
    /\ lib_paths = <<>>
    /\ units = <<>>
    /\ joined = 0
    /\ preExisting = {}
    /\ firstDone = 0
    /\ reqs = <<>>
    /\ failed = {}
    /\ message = ""
    /\ exitCode = -1
    /\ classpath = <<>>
    /\ opened = <<>>
    /\ written = {}

Init ==
    /\ fs = <<>>
    /\ remoteIndex \in [IndexUrls -> IndexDocs]
    /\ archive = DemoArchive
    /\ Fresh

Next ==
    \/ FetchVersions
    \/ SelectVersion
    \/ DetectJava
    \/ DownloadVersionFiles
    \/ DownloadLibraries
    \/ ExtractNatives
    \/ DownloadAssetsSpawn
    \/ \E i \in 1..NumAssets : UnitCheck(i)
    \/ \E i \in 1..NumAssets : UnitGet(i)
    \/ \E i \in 1..NumAssets : UnitCreate(i)
    \/ \E i \in 1..NumAssets : UnitWrite(i)
    \/ Join1
    \/ MirrorAssets
    \/ ScanAndLaunch
    \/ Kill
    \/ StartRun

Spec == Init /\ [][Next]_vars


\* One launcher process on a fresh disk.
NextOneRun ==
    \/ FetchVersions
    \/ SelectVersion
    \/ DetectJava
    \/ DownloadVersionFiles
    \/ DownloadLibraries
    \/ ExtractNatives
    \/ DownloadAssetsSpawn
    \/ \E i \in 1..NumAssets : UnitCheck(i)
    \/ \E i \in 1..NumAssets : UnitGet(i)
    \/ \E i \in 1..NumAssets : UnitCreate(i)
    \/ \E i \in 1..NumAssets : UnitWrite(i)
    \/ Join1
    \/ MirrorAssets
    \/ ScanAndLaunch
    \/ Kill

SpecOneRun == Init /\ [][NextOneRun]_vars

\* ---------------------------------------------------------------- extract_natives alone
\* Entry names a bundle may hold: plain, nested, escaping, rooted, climbing and
\* coming back, upper case, a dot file, a directory, a path ending in "..",
\* a file called dll.
EntryNames ==
    { <<"a", ".", "dll">>, <<"b", ".", "so">>, <<"readme", ".", "txt">>,
      <<"d", "/", "a", ".", "dll">>, <<"..", "/", "e", ".", "dll">>,
      <<"/", "c", ".", "dll">>, <<"d", "/", "..", "/", "e", ".", "dll">>,
      <<"f", ".", "DLL">>, <<".", "dll">>, <<"g", ".", "dll", "/">>,
      <<"d", "/", "..">>, <<"dll">> }

Archives == UNION {[1..n -> EntryNames] : n \in 0..MaxEntries}

\* main about to call extract_natives in a first run in which nothing failed,
\* for either version and any bundle content
InitExtract ==
    /\ archive \in Archives
    /\ remoteIndex = [u \in IndexUrls |-> [n \in AssetNames |-> <<"a", "b", "1">>]]
    /\ \E v \in 1..Len(ManifestDoc) :
         LET url == ManifestDoc[v].url
             id  == ManifestDoc[v].id
             st  == LibraryLoop(Detail(url).libraries, 1,
                       [fs |-> Write(Write(<<>>, JarPath(id),
                                           Body(Detail(url).downloads.client.url)),
                                     VersionJsonPath(id), Json(url)),
                        paths |-> <<>>,
                        reqs |-> Bump(Bump(Bump(<<>>, ManifestUrl), url),
                                      Detail(url).downloads.client.url),
                        failed |-> {}, err |-> FALSE], 0)
         IN  /\ versions = ManifestDoc
             /\ version = v
             /\ fs = st.fs
             /\ reqs = st.reqs
             /\ lib_paths = st.paths
    /\ run = 1
    /\ prev = [version |-> None, outcome |-> "none", clean |-> TRUE]
    /\ everKilled = FALSE
    /\ pc = "extract_natives"
    /\ outcome = "running"
    /\ units = <<>>
    /\ joined = 0
    /\ preExisting = {}
    /\ firstDone = 0
    /\ failed = {}
    /\ message = ""
    /\ exitCode = -1
    /\ classpath = <<>>
    /\ opened = <<>>
    /\ written = {}

NextExtract == ExtractNatives

SpecExtract == InitExtract /\ [][NextExtract]_vars

\* ---------------------------------------------------------------- the claims
\* the index document of the selected version
objects == remoteIndex[version_detail.assetIndex.url]
\* download_assets has returned Ok in this run
BatchPassed == pc = "scan" \/ outcome = "launched"
AllUnitsDone == \A i \in DOMAIN units : units[i].pc = "done"

\* C1: a second full synchronization of the same version, after a first one
\* that fetched everything, with no remote change and no failure, issues no
\* download request (the manifest fetch of main is not counted).
C1_SecondRunNoDownloads ==
    (/\ outcome = "launched"
     /\ failed = {}
     /\ prev.outcome = "launched"
     /\ prev.clean
     /\ prev.version = selected_version)
    => \A u \in DOMAIN reqs : u = ManifestUrl

\* C2: when none of the N targets of the index is on disk beforehand and M of
\* them fail to download, every unit terminates and is joined, exactly N - M
\* object files exist afterwards and the run goes on to the launch.
C2_PartialFailureIsolation ==
    (/\ pc = "exited"
     /\ outcome # "killed"
     /\ units # <<>>
     /\ \A n \in AssetNames : objects[n] \notin preExisting)
    => /\ outcome = "launched"
       /\ AllUnitsDone
       /\ joined = Len(units)
       /\ Cardinality({ObjectPath(objects[n]) : n \in AssetNames} \cap DOMAIN fs)
            = Len(units) - Cardinality({i \in DOMAIN units : units[i].result = "failed"})

IsRequired(u) ==
    \/ u = ManifestUrl
    \/ \E k \in DOMAIN ManifestDoc :
         \/ u = ManifestDoc[k].url
         \/ u = Detail(ManifestDoc[k].url).downloads.client.url
         \/ \E j \in DOMAIN Detail(ManifestDoc[k].url).libraries :
              Detail(ManifestDoc[k].url).libraries[j].downloads.artifact = Some([url |-> u])

\* C3: when the manifest fetch, the version-detail fetch, the client-jar
\* download or a library download fails, the run has ended with a message and
\* a non-zero exit status, the failed request was issued once, and java was
\* never launched.
C3_FailLoud ==
    \A u \in failed :
        IsRequired(u) =>
            /\ pc = "exited"
            /\ outcome = "returned"
            /\ message # ""
            /\ exitCode # 0
            /\ classpath = <<>>
            /\ Count(reqs, u) = 1

\* the libraries of the version detail that supply a plain artifact
WithArtifact == SelectSeq(version_detail.libraries, LAMBDA l : l.downloads.artifact # None)
LocalPath(lib) == <<"minecraft/libs/">> \o Replace(lib.name, ":", "-") \o <<".jar">>
PathsOf(libs) == [i \in 1..Len(libs) |-> LocalPath(libs[i])]

\* C4: the classpath given to java is the local path of every library of the
\* version detail, in manifest order, then the client jar as the last entry,
\* separated by ";", with no other and no empty entry.  "Every library" is
\* read either way: every entry of the list, or every entry with an artifact.
C4_ClasspathOrder ==
    outcome = "launched" =>
        \/ SplitOn(classpath, ";") =
               PathsOf(version_detail.libraries) \o <<JarPath(selected_version)>>
        \/ SplitOn(classpath, ";") = PathsOf(WithArtifact) \o <<JarPath(selected_version)>>

\* The entry names of EntryNames that are safe and have the extension dll,
\* with their base file names, written out by hand.
SafeDllBase ==
    [e \in { <<"a", ".", "dll">>, <<"d", "/", "a", ".", "dll">>,
             <<"d", "/", "..", "/", "e", ".", "dll">>, <<"g", ".", "dll", "/">> } |->
        CASE e = <<"a", ".", "dll">> -> <<"a", ".", "dll">>
          [] e = <<"d", "/", "a", ".", "dll">> -> <<"a", ".", "dll">>
          [] e = <<"d", "/", "..", "/", "e", ".", "dll">> -> <<"e", ".", "dll">>
          [] e = <<"g", ".", "dll", "/">> -> <<"g", ".", "dll">>]

OpenedEntries ==
    UNION { {EntriesOf(opened[k].content, archive)[j] :
                 j \in DOMAIN EntriesOf(opened[k].content, archive)} : k \in DOMAIN opened }

\* C5: once extract_natives has returned, the files it wrote into
\* minecraft/natives are exactly the base file names of the entries, of the
\* archives it opened, that pass the sanitization and have the extension dll;
\* and it fails only when a request failed, never on an entry.
C5_ExtractionFilter ==
    /\ pc = "download_assets" =>
         written = { <<"minecraft/natives/">> \o SafeDllBase[e] :
                        e \in OpenedEntries \cap DOMAIN SafeDllBase }
    /\ message = "Failed to extract natives" => failed # {}

\* a bundle with a.dll and an escaping dll, and a jar of classes, were opened,
\* and a.dll alone was written
C5_Witness ==
    /\ pc = "download_assets"
    /\ written = { <<"minecraft/natives/", "a", ".", "dll">> }
    /\ <<"..", "/", "e", ".", "dll">> \in OpenedEntries
    /\ <<"A", ".", "class">> \in OpenedEntries

\* C6: the units download_assets spawns have pairwise distinct target paths.
C6_DistinctTargets ==
    \A i, j \in DOMAIN units : i # j => units[i].path # units[j].path

\* C7: after a run that was terminated during the asset batch, a run for the
\* same asset index in which no request fails ends with every object of the
\* index on disk with its complete content.
C7_ResumeSafe ==
    (/\ BatchPassed
     /\ failed = {}
     /\ prev.outcome = "killed"
     /\ prev.version = selected_version)
    => \A n \in AssetNames :
          /\ Exists(fs, ObjectPath(objects[n]))
          /\ fs[ObjectPath(objects[n])] = Body(ObjectUrl(objects[n]))

\* C8: after download_assets runs that all returned, every asset of the most
\* recent index whose object file exists has a mirror file under
\* virtual/legacy that is a copy of that object.
C8_MirrorConsistent ==
    (BatchPassed /\ ~everKilled)
    => \A n \in AssetNames :
          Exists(fs, ObjectPath(objects[n])) =>
              /\ Exists(fs, VirtualPath(n))
              /\ fs[VirtualPath(n)] = fs[ObjectPath(objects[n])]

\* a mirror file is created or overwritten in this step
MirrorCopyMade ==
    \E n \in AssetNames :
        /\ Exists(fs', VirtualPath(n))
        /\ ~Exists(fs, VirtualPath(n)) \/ fs'[VirtualPath(n)] # fs[VirtualPath(n)]

\* C9: the caller is past the batch (mirror built, scan, launch) only when
\* every spawned unit has terminated and been joined, and no mirror copy is
\* made while a unit is still running.
C9_Barrier ==
    /\ [](BatchPassed => (AllUnitsDone /\ joined = Len(units)))
    /\ [][MirrorCopyMade => AllUnitsDone]_vars

\* the second unit terminated first, one unit downloaded, and the mirror is built
C9_Witness ==
    /\ pc = "scan"
    /\ firstDone = 2
    /\ \E i \in DOMAIN units : units[i].result = "written"
    /\ \E n \in AssetNames : Exists(fs, VirtualPath(n))

\* C10: the archive extract_natives opens for a library holds the bytes of that
\* library's native bundle, and the artifact jar and the native bundle of one
\* library are different local files.
C10_BundleIsExtracted ==
    \A k \in DOMAIN opened :
        /\ opened[k].content = Body(NativeOf(opened[k].lib)[1].url)
        /\ opened[k].lib.downloads.artifact # None =>
               ArtifactPath(opened[k].lib) # NativePath(opened[k].lib)

====
